---- MODULE Spec2Model ----
(***************************************************************************)
(* A model of the bandwidth test: the server (the Sender, server/src/      *)
(* main.rs) writes a fixed number of fixed-size chunks to the one client   *)
(* it accepts; the client (the Receiver, client/src/main.rs) reads them    *)
(* with read_exact, times each one, and derives the summary figures.       *)
(*                                                                         *)
(* Sizes are scaled: the program sends 100 chunks of 1_000_000 bytes, the  *)
(* model ChunkCount chunks of ChunkSize bytes.  A Duration is the pair     *)
(* (secs, nanos) of std::time::Duration; an f64 is modelled as an exact    *)
(* non-negative rational, or one of the IEEE values inf and NaN that a     *)
(* division by zero produces.  Rounding of f64 is not modelled.            *)
(***************************************************************************)
EXTENDS Integers, Sequences, FiniteSets, TLC

\* ---------------------------------------------------------------- bounds
\* number of chunks of a session (100 in the program)
ChunkCount == 3

\* bytes of a chunk (1_000_000 in the program)
ChunkSize == 2

\* bytes the transport holds between the two sockets (socket buffers)
MaxInFlight == 3

\* clients other than the Receiver that try to connect
MaxOthers == 1

\* longest raw series handed to plot_latency_and_data_rate on its own
MaxSamples == 7

\* ------------------------------------------------------------- constants
NANOS_PER_SEC == 1000000000

\* latencies.windows(5), data_rates.windows(5)
WINDOW == 5

\* let mut buffer = vec![0u8; 1_000_000]
BUFFER_LEN == 1000000

\* for i in 1..=100
LAST_CHUNK == 100

\* ------------------------------------------------------------------ f64
RECURSIVE Gcd(_, _)
Gcd(a, b) == IF b = 0 THEN a ELSE Gcd(b, a % b)

Fin(n, d) == LET g == Gcd(n, d) IN [k |-> "fin", n |-> n \div g, d |-> d \div g]

Inf == [k |-> "inf", n |-> 1, d |-> 0]

NaN == [k |-> "nan", n |-> 0, d |-> 0]

F(n) == Fin(n, 1)

IsZero(a) == a.k = "fin" /\ a.n = 0

\* In the three operations the operands are bound to x and y, so that each is
\* evaluated once however often the result refers to it.

\* a / b on non-negative f64 values: x/0 is inf, 0/0 is NaN, no error
FDiv(a, b) ==
  CHOOSE q \in
    {IF x.k = "nan" \/ y.k = "nan" THEN NaN
     ELSE IF x.k = "inf" THEN (IF y.k = "inf" THEN NaN ELSE Inf)
     ELSE IF y.k = "inf" THEN F(0)
     ELSE IF y.n = 0 THEN (IF x.n = 0 THEN NaN ELSE Inf)
     ELSE Fin(x.n * y.d, x.d * y.n) : x \in {a}, y \in {b}} : TRUE

FMul(a, b) ==
  CHOOSE q \in
    {IF x.k = "nan" \/ y.k = "nan" THEN NaN
     ELSE IF x.k = "inf" THEN (IF IsZero(y) THEN NaN ELSE Inf)
     ELSE IF y.k = "inf" THEN (IF IsZero(x) THEN NaN ELSE Inf)
     ELSE Fin(x.n * y.n, x.d * y.d) : x \in {a}, y \in {b}} : TRUE

FAdd(a, b) ==
  CHOOSE q \in
    {IF x.k = "nan" \/ y.k = "nan" THEN NaN
     ELSE IF x.k = "inf" \/ y.k = "inf" THEN Inf
     ELSE Fin(x.n * y.d + y.n * x.d, x.d * y.d) : x \in {a}, y \in {b}} : TRUE

RECURSIVE FSum(_)
FSum(s) == IF s = <<>> THEN F(0) ELSE FAdd(FSum(SubSeq(s, 1, Len(s) - 1)), s[Len(s)])

\* ------------------------------------------------------------- Duration
Dur(s, n) == [secs |-> s, nanos |-> n]

\* Duration::new(0, 0)
DurZero == Dur(0, 0)

\* a Duration += that subtracts the overflow of the nanoseconds and loses the
\* carried second
DurAddDropCarry(a, b) ==
  LET n == a.nanos + b.nanos
  IN  Dur(a.secs + b.secs, IF n >= NANOS_PER_SEC THEN n - NANOS_PER_SEC ELSE n)

\* Duration += Duration: the nanoseconds carry into the seconds
DurAdd(a, b) ==
  LET n == a.nanos + b.nanos
  IN  IF n >= NANOS_PER_SEC
      THEN Dur(a.secs + b.secs + 1, n - NANOS_PER_SEC)
      ELSE Dur(a.secs + b.secs, n)

\* Duration::as_secs_f64: secs + nanos / 1e9
as_secs_f64(d) == FAdd(F(d.secs), FDiv(F(d.nanos), F(NANOS_PER_SEC)))

\* what start.elapsed() can return for one chunk
Durations == {Dur(0, 0), Dur(0, 500000000), Dur(0, 750000000)}

Min(a, b) == IF a < b THEN a ELSE b


\* ---------------------------------------------------------------- state
VARIABLES
  listener,   \* the TcpListener: "none", "open", "closed"
  queue,      \* the listen queue: the connections waiting to be accepted
  others,     \* connections other clients have made
  peer,       \* whose connection the server accepted: "none", "rx", "other"
  o_sock,     \* the other client's socket: "none", "open", "closed"
  accepted,   \* connections the server has taken from listener.incoming()
  s_pc,       \* the server's position
  s_exit,     \* the server's outcome: "none", "ok", "err", "panic"
  s_error,    \* the error the server ran into, "none" if none
  s_sock,     \* the server's end of the Receiver's connection
  s_k,        \* chunks write_all has returned Ok for
  s_off,      \* bytes of the current chunk the transport has accepted
  s_started,  \* write_all calls begun
  sent,       \* bytes the transport has accepted from the server
  hc_ret,     \* what handle_client returned to main: "none" until it returns
  link,       \* the connection's transport: "up" or "broken"
  chan,       \* bytes accepted from the server and not yet read by the client
  c_pc,       \* the client's position
  c_exit,     \* the client's outcome: "none", "ok", "err"
  c_error,    \* the error the client ran into, "none" if none
  c_sock,     \* the client's TcpStream: "none", "open", "closed"
  c_i,        \* the loop variable i of the read loop
  c_off,      \* bytes of the current chunk read_exact has put in buffer
  c_reads,    \* read_exact calls begun
  c_failed_at,\* the iteration whose read_exact failed, 0 if none
  rcvd,       \* bytes the client has read from the transport
  total_data_transferred,
  total_time,
  latencies,
  data_rates,
  csv,        \* the rows written after the header, one per ChunkRecord
  summary,    \* <<>> until the figures of lines 83-89 are computed
  avg_latency,        \* the four values plot_latency_and_data_rate derives,
  avg_data_rate,      \* <<>> until it has derived them
  smoothed_latencies,
  smoothed_data_rates,
  s_closes,   \* times the server has closed the stream it accepted
  c_closes    \* times the client has closed its TcpStream

s_vars == <<listener, queue, others, peer, o_sock, accepted, s_pc, s_exit, s_error,
            s_sock, s_k, s_off, s_started, sent, hc_ret, s_closes>>

plot_vars == <<avg_latency, avg_data_rate, smoothed_latencies, smoothed_data_rates>>

c_vars == <<c_pc, c_exit, c_error, c_sock, c_closes, c_i, c_off, c_reads, c_failed_at,
            rcvd, total_data_transferred, total_time, latencies, data_rates, csv,
            summary, plot_vars>>

c_data == <<c_i, c_off, c_reads, c_failed_at, rcvd, total_data_transferred, total_time,
            latencies, data_rates, csv, summary>>

vars == <<s_vars, c_vars, link, chan>>

Init ==
  /\ listener = "none" /\ queue = <<>> /\ others = 0 /\ peer = "none"
  /\ o_sock = "none" /\ accepted = 0
  /\ s_pc = "bind" /\ s_exit = "none" /\ s_error = "none" /\ s_sock = "none"
  /\ s_k = 0 /\ s_off = 0 /\ s_started = 0 /\ sent = 0 /\ hc_ret = "none"
  /\ link = "up" /\ chan = 0
  /\ c_pc = "connect" /\ c_exit = "none" /\ c_error = "none" /\ c_sock = "none"
  /\ c_i = 1 /\ c_off = 0 /\ c_reads = 0 /\ c_failed_at = 0 /\ rcvd = 0
  /\ total_data_transferred = 0 /\ total_time = DurZero
  /\ latencies = <<>> /\ data_rates = <<>> /\ csv = <<>> /\ summary = <<>>
  /\ avg_latency = <<>> /\ avg_data_rate = <<>>
  /\ smoothed_latencies = <<>> /\ smoothed_data_rates = <<>>
  /\ s_closes = 0 /\ c_closes = 0

\* --------------------------------------------------------------- server
\* the process ends: the listener is dropped, and with it every connection
\* that was never accepted
ServerEnds(outcome) ==
  /\ s_pc' = "exited"
  /\ s_exit' = outcome
  /\ listener' = IF listener = "open" THEN "closed" ELSE listener
  /\ queue' = <<>>
  /\ s_sock' = IF s_sock \in {"backlog", "open"} THEN "closed" ELSE s_sock

\* handle_client returns with its stream kept alive (leaked or stored away)
HandlerReturnsLeak ==
  /\ s_pc' = "handled"
  /\ hc_ret' = "unit"
  /\ UNCHANGED <<s_sock, s_closes>>

\* handle_client returns (): its stream is dropped
HandlerReturns ==
  /\ s_pc' = "handled"
  /\ hc_ret' = "unit"
  /\ s_sock' = IF peer = "rx" THEN "closed" ELSE s_sock
  /\ s_closes' = s_closes + 1

\* TcpListener::bind("127.0.0.1:7878")? succeeds
SBind ==
  /\ s_pc = "bind"
  /\ s_pc' = "listening"
  /\ listener' = "open"
  /\ UNCHANGED <<s_closes, queue, others, peer, o_sock, accepted, s_exit, s_error, s_sock,
                 s_k, s_off, s_started, sent, hc_ret, link, chan, c_vars>>

\* TcpListener::bind fails: ? returns the error from main
SBindFail ==
  /\ s_pc = "bind"
  /\ s_error' = "ConnectionError"
  /\ ServerEnds("err")
  /\ UNCHANGED <<s_closes, others, peer, o_sock, accepted, s_k, s_off, s_started, sent,
                 hc_ret, link, chan, c_vars>>

\* listener.incoming().next() yields Ok(stream): the oldest waiting connection
SAccept ==
  /\ s_pc = "listening"
  /\ queue # <<>>
  /\ peer' = Head(queue)
  /\ queue' = Tail(queue)
  /\ s_sock' = IF Head(queue) = "rx" THEN "open" ELSE s_sock
  /\ o_sock' = IF Head(queue) = "other" THEN "open" ELSE o_sock
  /\ accepted' = accepted + 1
  /\ s_pc' = "setup"
  /\ UNCHANGED <<s_closes, listener, others, s_exit, s_error, s_k, s_off, s_started, sent,
                 hc_ret, link, chan, c_vars>>

\* listener.incoming().next() yields Err(e): eprintln, then main returns Ok(())
SAcceptFail ==
  /\ s_pc = "listening"
  /\ s_error' = "ConnectionError"
  /\ ServerEnds("ok")
  /\ UNCHANGED <<s_closes, others, peer, o_sock, accepted, s_k, s_off, s_started, sent,
                 hc_ret, link, chan, c_vars>>

\* handle_client up to the loop: try_clone, set_send_buffer_size, the chunk
SSetup ==
  /\ s_pc = "setup"
  /\ s_pc' = "loop"
  /\ UNCHANGED <<s_closes, listener, queue, others, peer, o_sock, accepted, s_exit,
                 s_error, s_sock, s_k, s_off, s_started, sent, hc_ret, link, chan, c_vars>>

\* one of the two expect() calls panics
SSetupPanic ==
  /\ s_pc = "setup"
  /\ s_error' = "SetupError"
  /\ ServerEnds("panic")
  /\ s_closes' = s_closes + 1
  /\ UNCHANGED <<others, peer, o_sock, accepted, s_k, s_off, s_started, sent, hc_ret,
                 link, chan, c_vars>>

\* the inclusive range 0..=100: one iteration too many
SLoopInclusive(k) == k <= ChunkCount

\* for _ in 0..100: another iteration while k chunks of 100 are written
SLoopContinues(k) == k < ChunkCount

\* the loop body begins: stream.write_all(&chunk) is called
SBeginWrite ==
  /\ s_pc = "loop"
  /\ SLoopContinues(s_k)
  /\ s_pc' = "writing"
  /\ s_off' = 0
  /\ s_started' = s_started + 1
  /\ UNCHANGED <<s_closes, listener, queue, others, peer, o_sock, accepted, s_exit,
                 s_error, s_sock, s_k, sent, hc_ret, link, chan, c_vars>>

\* write_all hands the transport the next n bytes of the chunk, as many as it
\* takes; when the whole chunk is taken write_all returns Ok
SWriteBytes ==
  /\ s_pc = "writing"
  /\ link = "up"
  /\ \E n \in 1..Min(ChunkSize - s_off, MaxInFlight - chan) :
       /\ sent' = sent + n
       /\ chan' = chan + n
       /\ IF s_off + n = ChunkSize
          THEN s_off' = 0 /\ s_k' = s_k + 1 /\ s_pc' = "loop"
          ELSE s_off' = s_off + n /\ s_k' = s_k /\ s_pc' = "writing"
  /\ UNCHANGED <<s_closes, listener, queue, others, peer, o_sock, accepted, s_exit,
                 s_error, s_sock, s_started, hc_ret, link, c_vars>>

\* the accepted client has closed its socket
PeerClosed == (peer = "rx" /\ c_sock = "closed") \/ (peer = "other" /\ o_sock = "closed")

\* write_all returns Err (peer closed, connection reset): eprintln and return
SWriteFail ==
  /\ s_pc = "writing"
  /\ link = "broken" \/ PeerClosed
  /\ s_error' = "TransportError"
  /\ HandlerReturns
  /\ UNCHANGED <<listener, queue, others, peer, o_sock, accepted, s_exit, s_k, s_off,
                 s_started, sent, link, chan, c_vars>>

\* the loop is over: println "Completed ..." and handle_client returns
SLoopDone ==
  /\ s_pc = "loop"
  /\ ~SLoopContinues(s_k)
  /\ HandlerReturns
  /\ UNCHANGED <<listener, queue, others, peer, o_sock, accepted, s_exit, s_error, s_k,
                 s_off, s_started, sent, link, chan, c_vars>>

\* a service loop (for stream in listener.incoming()): after one client the
\* server waits for the next
SServeNext ==
  /\ s_pc = "handled"
  /\ s_pc' = "listening"
  /\ s_k' = 0 /\ s_off' = 0
  /\ UNCHANGED <<s_closes, listener, queue, others, peer, o_sock, accepted, s_exit,
                 s_error, s_sock, s_started, sent, hc_ret, link, chan, c_vars>>

\* back in main: println "Server exiting ...", then Ok(())
SExit ==
  /\ s_pc = "handled"
  /\ ServerEnds("ok")
  /\ UNCHANGED <<s_closes, others, peer, o_sock, accepted, s_error, s_k, s_off, s_started,
                 sent, hc_ret, link, chan, c_vars>>

\* ----------------------------------------------------------- environment
\* another client connects while the listener is open
OtherConnect ==
  /\ listener = "open"
  /\ others < MaxOthers
  /\ others' = others + 1
  /\ queue' = Append(queue, "other")
  /\ UNCHANGED <<s_closes, listener, peer, o_sock, accepted, s_pc, s_exit, s_error,
                 s_sock, s_k, s_off, s_started, sent, hc_ret, link, chan, c_vars>>

\* the other client, once accepted, reads what has arrived
OtherRead ==
  /\ peer = "other"
  /\ o_sock = "open"
  /\ link = "up"
  /\ chan > 0
  /\ chan' = 0
  /\ UNCHANGED <<s_vars, c_vars, link>>

\* the other client, once accepted, closes its socket
OtherClose ==
  /\ peer = "other"
  /\ o_sock = "open"
  /\ o_sock' = "closed"
  /\ UNCHANGED <<s_closes, listener, queue, others, peer, accepted, s_pc, s_exit, s_error,
                 s_sock, s_k, s_off, s_started, sent, hc_ret, link, chan, c_vars>>

\* the accepted connection is reset while both its ends are open
NetBreak ==
  /\ link = "up"
  /\ s_pc \in {"setup", "loop", "writing"}
  /\ (peer = "rx" /\ c_sock = "open") \/ (peer = "other" /\ o_sock = "open")
  /\ link' = "broken"
  /\ UNCHANGED <<s_vars, c_vars, chan>>

\* --------------------------------------------------------------- client
\* main returns: the TcpStream is dropped
ClientEnds(outcome, err) ==
  /\ c_pc' = "exited"
  /\ c_exit' = outcome
  /\ c_error' = err
  /\ c_sock' = IF c_sock = "open" THEN "closed" ELSE c_sock
  /\ c_closes' = IF c_sock = "open" THEN c_closes + 1 ELSE c_closes

\* TcpStream::connect("127.0.0.1:7878")? succeeds: the connection waits in the
\* listen queue until the server accepts it
CConnect ==
  /\ c_pc = "connect"
  /\ listener = "open"
  /\ c_sock' = "open"
  /\ s_sock' = "backlog"
  /\ queue' = Append(queue, "rx")
  /\ c_pc' = "csv_init"
  /\ UNCHANGED <<s_closes, c_closes, plot_vars, listener, others, peer, o_sock, accepted,
                 s_pc, s_exit, s_error, s_k, s_off, s_started, sent, hc_ret, link, chan,
                 c_exit, c_error, c_data>>

\* TcpStream::connect fails: ? returns the error from main
CConnectFail ==
  /\ c_pc = "connect"
  /\ ClientEnds("err", "ConnectionError")
  /\ UNCHANGED <<plot_vars, s_vars, link, chan, c_data>>

\* Writer::from_path(...)? and the header row's write_record(...)?
CCsvInit ==
  /\ c_pc = "csv_init"
  /\ \E ok \in BOOLEAN :
       IF ok
       THEN c_pc' = "loop" /\ UNCHANGED <<c_exit, c_error, c_sock, c_closes>>
       ELSE ClientEnds("err", "SinkError")
  /\ UNCHANGED <<plot_vars, s_vars, link, chan, c_data>>

\* the exclusive range 1..100: one iteration short
CLoopExclusive(i) == i < ChunkCount

\* for i in 1..=100: another iteration while i is in the range
CLoopContinues(i) == i <= ChunkCount

\* the loop body begins: start = Instant::now(), read_exact is called
CBeginRead ==
  /\ c_pc = "loop"
  /\ CLoopContinues(c_i)
  /\ c_pc' = "reading"
  /\ c_off' = 0
  /\ c_reads' = c_reads + 1
  /\ UNCHANGED <<plot_vars, s_vars, link, chan, c_exit, c_error, c_sock, c_closes, c_i,
                 c_failed_at, rcvd, total_data_transferred, total_time, latencies,
                 data_rates, csv, summary>>

\* a plain read in place of read_exact: done after the first short read
ReadDoneShort(off) == off >= 1

\* read_exact returns Ok once the buffer is full, not before
ReadExactDone(off) == off = ChunkSize

\* read_exact takes the n bytes a read returns, short reads included
CReadBytes ==
  /\ c_pc = "reading"
  /\ peer = "rx"
  /\ link = "up"
  /\ \E n \in 1..Min(ChunkSize - c_off, chan) :
       /\ chan' = chan - n
       /\ rcvd' = rcvd + n
       /\ c_off' = c_off + n
       /\ c_pc' = IF ReadExactDone(c_off + n) THEN "timed" ELSE "reading"
  /\ UNCHANGED <<plot_vars, s_vars, link, c_exit, c_error, c_sock, c_closes, c_i, c_reads,
                 c_failed_at, total_data_transferred, total_time, latencies, data_rates,
                 csv, summary>>

\* a read loop that takes a reset for an error but waits on at end-of-stream
CReadFailResetOnly ==
  /\ c_pc = "reading"
  /\ peer = "rx" /\ link = "broken"
  /\ c_failed_at' = c_i
  /\ ClientEnds("err", "TransportError")
  /\ UNCHANGED <<plot_vars, s_vars, link, chan, c_i, c_off, c_reads, rcvd,
                 total_data_transferred, total_time, latencies, data_rates, csv, summary>>

\* read_exact returns Err: the connection was reset, or the server's end is
\* closed and nothing is left to read; ? returns the error from main
CReadFail ==
  /\ c_pc = "reading"
  /\ (peer = "rx" /\ link = "broken") \/ (s_sock = "closed" /\ (peer = "rx" => chan = 0))
  /\ c_failed_at' = c_i
  /\ ClientEnds("err", "TransportError")
  /\ UNCHANGED <<plot_vars, s_vars, link, chan, c_i, c_off, c_reads, rcvd,
                 total_data_transferred, total_time, latencies, data_rates, csv, summary>>

\* = in place of +=
AddBytesAssign(total) == ChunkSize

\* total_data_transferred += buffer.len()
AddBytes(total) == total + ChunkSize

\* chunk_size = buffer.len() as f64 * 8.0
chunk_size == FMul(F(ChunkSize), F(8))

\* the row of a loop that counts from 0
ChunkRecordZeroBased(i, download_time, effective_data_rate) ==
  [index |-> i - 1, duration_seconds |-> download_time,
   effective_rate_bps |-> effective_data_rate]

\* the row written for chunk i
ChunkRecord(i, download_time, effective_data_rate) ==
  [index |-> i, duration_seconds |-> download_time,
   effective_rate_bps |-> effective_data_rate]

\* the rest of the loop body, lines 66-77: duration = start.elapsed(), the
\* totals, the two series, the row; write_record(...)? may fail
CRecord ==
  /\ c_pc = "timed"
  /\ \E duration \in Durations, ok \in BOOLEAN :
       LET download_time == as_secs_f64(duration)
           effective_data_rate == FDiv(chunk_size, download_time)
       IN  /\ total_time' = DurAdd(total_time, duration)
           /\ total_data_transferred' = AddBytes(total_data_transferred)
           /\ latencies' = Append(latencies, download_time)
           /\ data_rates' = Append(data_rates, effective_data_rate)
           /\ IF ok
              THEN /\ csv' = Append(csv, ChunkRecord(c_i, download_time,
                                                     effective_data_rate))
                   /\ c_i' = c_i + 1
                   /\ c_pc' = "loop"
                   /\ UNCHANGED <<c_exit, c_error, c_sock, c_closes>>
              ELSE /\ ClientEnds("err", "SinkError")
                   /\ UNCHANGED <<csv, c_i>>
  /\ UNCHANGED <<plot_vars, s_vars, link, chan, c_off, c_reads, c_failed_at, rcvd, summary>>

\* the range is exhausted
CLoopDone ==
  /\ c_pc = "loop"
  /\ ~CLoopContinues(c_i)
  /\ c_pc' = "flush"
  /\ UNCHANGED <<plot_vars, s_vars, link, chan, c_exit, c_error, c_sock, c_closes, c_data>>

\* wtr.flush()?
CFlush ==
  /\ c_pc = "flush"
  /\ \E ok \in BOOLEAN :
       IF ok
       THEN c_pc' = "summary" /\ UNCHANGED <<c_exit, c_error, c_sock, c_closes>>
       ELSE ClientEnds("err", "SinkError")
  /\ UNCHANGED <<plot_vars, s_vars, link, chan, c_data>>

calculate_bdp(bandwidth_bps, rtt_seconds) == FMul(bandwidth_bps, rtt_seconds)

\* the quotient the other way round
EffectiveRateSwapped(total_data_bits, total_time_seconds) ==
  FDiv(total_time_seconds, total_data_bits)

calculate_effective_data_rate(total_data_bits, total_time_seconds) ==
  FDiv(total_data_bits, total_time_seconds)

calculate_tcp_throughput(window_size_bits, rtt_seconds) ==
  FDiv(window_size_bits, rtt_seconds)

\* let rtt_seconds = 0.2
rtt_seconds == Fin(2, 10)

\* let tcp_window_size_bits = 64_000.0 * 8.0
tcp_window_size_bits == FMul(F(64000), F(8))

\* the figures with the measured total time passed for the round-trip time of
\* the window-limited throughput
SummarizeMeasuredRtt(bytes, time) ==
  LET total_data_bits == FMul(F(bytes), F(8))
      total_time_seconds == as_secs_f64(time)
      avg_effective_data_rate ==
        calculate_effective_data_rate(total_data_bits, total_time_seconds)
  IN  [total_bytes |-> bytes,
       total_time_seconds |-> total_time_seconds,
       avg_effective_rate_bps |-> avg_effective_data_rate,
       bdp_bits |-> calculate_bdp(avg_effective_data_rate, rtt_seconds),
       tcp_throughput_bps |->
         calculate_tcp_throughput(tcp_window_size_bits, total_time_seconds)]

\* lines 83-89: the figures derived from the two totals
Summarize(bytes, time) ==
  LET total_data_bits == FMul(F(bytes), F(8))
      total_time_seconds == as_secs_f64(time)
      avg_effective_data_rate ==
        calculate_effective_data_rate(total_data_bits, total_time_seconds)
  IN  [total_bytes |-> bytes,
       total_time_seconds |-> total_time_seconds,
       avg_effective_rate_bps |-> avg_effective_data_rate,
       bdp_bits |-> calculate_bdp(avg_effective_data_rate, rtt_seconds),
       tcp_throughput_bps |-> calculate_tcp_throughput(tcp_window_size_bits, rtt_seconds)]

\* lines 83-94: the figures are computed and printed; nothing here can fail
CSummary ==
  /\ c_pc = "summary"
  /\ summary' = <<Summarize(total_data_transferred, total_time)>>
  /\ c_pc' = "plot"
  /\ UNCHANGED <<plot_vars, s_vars, link, chan, c_exit, c_error, c_sock, c_closes, c_i,
                 c_off, c_reads, c_failed_at, rcvd, total_data_transferred, total_time,
                 latencies, data_rates, csv>>

\* iter().sum::<f64>() / len() as f64: NaN for an empty slice
Mean(s) == FDiv(FSum(s), F(Len(s)))

\* slice::chunks_exact: the pieces side by side, not overlapping
RECURSIVE ChunksExact(_, _)
ChunksExact(s, size) ==
  IF Len(s) < size THEN <<>>
  ELSE <<SubSeq(s, 1, size)>> \o ChunksExact(SubSeq(s, size + 1, Len(s)), size)

\* slice::windows: every run of size consecutive elements, first to last; none
\* when the slice is shorter than size
RECURSIVE Windows(_, _)
Windows(s, size) ==
  IF Len(s) < size THEN <<>>
  ELSE <<SubSeq(s, 1, size)>> \o Windows(Tail(s), size)

\* series.windows(5).map(|w| w.iter().sum::<f64>() / w.len() as f64).collect()
Smooth(series) ==
  LET w == Windows(series, WINDOW) IN [i \in 1..Len(w) |-> Mean(w[i])]

\* plot_latency_and_data_rate(&latencies, &data_rates)? and then Ok(()):
\* root.fill may fail before lines 107-111 derive the averages and the smoothed
\* series, the chart calls after them
CPlot ==
  /\ c_pc = "plot"
  /\ \E outcome \in {"fill_err", "chart_err", "ok"} :
       /\ IF outcome = "fill_err"
          THEN UNCHANGED plot_vars
          ELSE /\ avg_latency' = <<Mean(latencies)>>
               /\ avg_data_rate' = <<Mean(data_rates)>>
               /\ smoothed_latencies' = Smooth(latencies)
               /\ smoothed_data_rates' = Smooth(data_rates)
       /\ IF outcome = "ok"
          THEN ClientEnds("ok", "none")
          ELSE ClientEnds("err", "SinkError")
  /\ UNCHANGED <<s_vars, link, chan, c_data>>

\* -------------------------------------------------------- specification
Next ==
  \/ SBind \/ SBindFail \/ SAccept \/ SAcceptFail \/ SSetup \/ SSetupPanic
  \/ SBeginWrite \/ SWriteBytes \/ SWriteFail \/ SLoopDone \/ SExit
  \/ OtherConnect \/ OtherRead \/ OtherClose \/ NetBreak
  \/ CConnect \/ CConnectFail \/ CCsvInit \/ CBeginRead \/ CReadBytes \/ CReadFail
  \/ CRecord \/ CLoopDone \/ CFlush \/ CSummary \/ CPlot

Spec == Init /\ [][Next]_vars

\* the server runs: a step it can take, short of a failure of bind, accept or
\* the socket setup, is taken; a blocked write_all goes on or fails
ServerProgress ==
  \/ SBind \/ SAccept \/ SSetup \/ SBeginWrite \/ SWriteBytes \/ SWriteFail
  \/ SLoopDone \/ SExit

\* the client runs: a blocked connect or read_exact goes on or fails
ClientProgress ==
  \/ CConnect \/ CConnectFail \/ CCsvInit \/ CBeginRead \/ CReadBytes \/ CReadFail
  \/ CRecord \/ CLoopDone \/ CFlush \/ CSummary \/ CPlot

\* both processes keep running and an accepted peer keeps reading
FairSpec ==
  /\ Spec
  /\ WF_vars(ServerProgress)
  /\ WF_vars(ClientProgress)
  /\ WF_vars(OtherRead)

\* the values a raw sample takes
Samples == {as_secs_f64(d) : d \in Durations}

\* plot_latency_and_data_rate taken on its own: called with any latencies of
\* up to MaxSamples samples and the data rates that go with them
SmoothInit ==
  /\ listener = "none" /\ queue = <<>> /\ others = 0 /\ peer = "none"
  /\ o_sock = "none" /\ accepted = 0
  /\ s_pc = "bind" /\ s_exit = "none" /\ s_error = "none" /\ s_sock = "none"
  /\ s_k = 0 /\ s_off = 0 /\ s_started = 0 /\ sent = 0 /\ hc_ret = "none"
  /\ link = "up" /\ chan = 0
  /\ c_pc = "plot" /\ c_exit = "none" /\ c_error = "none" /\ c_sock = "none"
  /\ c_i = 1 /\ c_off = 0 /\ c_reads = 0 /\ c_failed_at = 0 /\ rcvd = 0
  /\ total_data_transferred = 0 /\ total_time = DurZero
  /\ \E n \in 0..MaxSamples : latencies \in [1..n -> Samples]
  /\ data_rates = [i \in 1..Len(latencies) |-> FDiv(chunk_size, latencies[i])]
  /\ csv = <<>> /\ summary = <<>>
  /\ avg_latency = <<>> /\ avg_data_rate = <<>>
  /\ smoothed_latencies = <<>> /\ smoothed_data_rates = <<>>
  /\ s_closes = 0 /\ c_closes = 0

SmoothNext == CPlot

\* the read loop with the program's own sizes, 100 chunks of 1_000_000 bytes,
\* in a session whose every chunk takes 0.1 s; the transport is left out
ScenarioInit ==
  /\ listener = "none" /\ queue = <<>> /\ others = 0 /\ peer = "none"
  /\ o_sock = "none" /\ accepted = 0
  /\ s_pc = "bind" /\ s_exit = "none" /\ s_error = "none" /\ s_sock = "none"
  /\ s_k = 0 /\ s_off = 0 /\ s_started = 0 /\ sent = 0 /\ hc_ret = "none"
  /\ link = "up" /\ chan = 0
  /\ c_pc = "loop" /\ c_exit = "none" /\ c_error = "none" /\ c_sock = "none"
  /\ c_i = 1 /\ c_off = 0 /\ c_reads = 0 /\ c_failed_at = 0 /\ rcvd = 0
  /\ total_data_transferred = 0 /\ total_time = DurZero
  /\ latencies = <<>> /\ data_rates = <<>> /\ csv = <<>> /\ summary = <<>>
  /\ avg_latency = <<>> /\ avg_data_rate = <<>>
  /\ smoothed_latencies = <<>> /\ smoothed_data_rates = <<>>
  /\ s_closes = 0 /\ c_closes = 0

\* one iteration of lines 62-78: the chunk arrives whole after 0.1 s
ScenarioRecord ==
  /\ c_pc = "loop"
  /\ c_i <= LAST_CHUNK
  /\ LET duration == Dur(0, 100000000)
         download_time == as_secs_f64(duration)
         effective_data_rate == FDiv(FMul(F(BUFFER_LEN), F(8)), download_time)
     IN  /\ total_time' = DurAdd(total_time, duration)
         /\ total_data_transferred' = total_data_transferred + BUFFER_LEN
         /\ latencies' = Append(latencies, download_time)
         /\ data_rates' = Append(data_rates, effective_data_rate)
         /\ csv' = Append(csv, ChunkRecord(c_i, download_time, effective_data_rate))
  /\ c_i' = c_i + 1
  /\ c_reads' = c_reads + 1
  /\ rcvd' = rcvd + BUFFER_LEN
  /\ UNCHANGED <<s_vars, link, chan, c_pc, c_exit, c_error, c_sock, c_closes, c_off,
                 c_failed_at, summary, plot_vars>>

\* the loop is over: wtr.flush() and the figures of lines 83-94
ScenarioSummary ==
  /\ c_pc = "loop"
  /\ c_i > LAST_CHUNK
  /\ summary' = <<Summarize(total_data_transferred, total_time)>>
  /\ c_pc' = "plot"
  /\ UNCHANGED <<s_vars, link, chan, c_exit, c_error, c_sock, c_closes, c_i, c_off,
                 c_reads, c_failed_at, rcvd, total_data_transferred, total_time,
                 latencies, data_rates, csv, plot_vars>>

ScenarioNext == ScenarioRecord \/ ScenarioSummary

ScenarioSpec == ScenarioInit /\ [][ScenarioNext]_vars

SmoothSpec == SmoothInit /\ [][SmoothNext]_vars

TypeOK ==
  /\ listener \in {"none", "open", "closed"}
  /\ others \in 0..MaxOthers
  /\ Len(queue) <= MaxOthers + 1
  /\ peer \in {"none", "rx", "other"}
  /\ o_sock \in {"none", "open", "closed"}
  /\ s_pc \in {"bind", "listening", "setup", "loop", "writing", "handled", "exited"}
  /\ s_exit \in {"none", "ok", "err", "panic"}
  /\ s_sock \in {"none", "backlog", "open", "closed"}
  /\ s_off \in 0..(ChunkSize - 1)
  /\ hc_ret \in {"none", "unit"}
  /\ link \in {"up", "broken"}
  /\ chan \in 0..MaxInFlight
  /\ c_pc \in {"connect", "csv_init", "loop", "reading", "timed", "flush", "summary",
               "plot", "exited"}
  /\ c_exit \in {"none", "ok", "err"}
  /\ c_sock \in {"none", "open", "closed"}
  /\ c_off \in 0..ChunkSize
  /\ Len(summary) <= 1
  /\ total_time.nanos < NANOS_PER_SEC


\* --------------------------------------------------------------- claims
Completed == c_pc \in {"flush", "summary", "plot"} \/ c_exit = "ok"

RECURSIVE Column(_, _)
Column(rows, j) ==
  IF j = 0 THEN <<>> ELSE Append(Column(rows, j - 1), rows[j].duration_seconds)

Max(a, b) == IF a > b THEN a ELSE b

\* the mean of the WINDOW raw samples from position i on, added up one by one
WindowMean(raw, i) ==
  FDiv(FAdd(FAdd(FAdd(FAdd(raw[i], raw[i + 1]), raw[i + 2]), raw[i + 3]), raw[i + 4]),
       F(5))

IsSmoothed(raw, smoothed) ==
  /\ Len(smoothed) = Max(0, Len(raw) - WINDOW + 1)
  /\ \A i \in 1..Len(smoothed) : smoothed[i] = WindowMean(raw, i)
  /\ Len(raw) < WINDOW => smoothed = <<>>

\* C1: when read_exact fails after k chunks were fully received, the session
\* still reaches summary derivation and the summary reflects exactly those k
\* records.
C1_AbortStillSummarized ==
  (c_pc = "exited" /\ c_failed_at > 0) =>
    /\ Len(summary) = 1
    /\ Len(csv) = c_failed_at - 1
    /\ summary[1].total_bytes = (c_failed_at - 1) * ChunkSize

\* C2: a process that ran into a ConnectionError, a TransportError or a
\* ComputationError never ends with a success outcome.
C2_ErrorsExitNonZero ==
  LET Kinds == {"ConnectionError", "TransportError", "ComputationError"}
  IN  /\ (s_pc = "exited" /\ s_error \in Kinds) => s_exit \in {"err", "panic"}
      /\ (c_pc = "exited" /\ c_error \in Kinds) => c_exit = "err"

\* C3: at every iteration boundary of the read loop, and in every derived
\* summary, total_bytes is the number of records collected times the chunk
\* size; in a completed session it is ChunkCount * ChunkSize.
C3_TotalBytes ==
  /\ c_pc = "loop" =>
       /\ total_data_transferred = Len(csv) * ChunkSize
       /\ Len(latencies) = Len(csv)
  /\ Len(summary) = 1 => summary[1].total_bytes = Len(csv) * ChunkSize
  /\ Completed => total_data_transferred = ChunkCount * ChunkSize

C3_Witness ==
  /\ Len(summary) = 1
  /\ summary[1].total_bytes = ChunkCount * ChunkSize
  /\ Len(csv) = ChunkCount

\* C4: the records carry the indices 1, 2, ..., m in this order, with no gap
\* and no repeat; a completed session has exactly the indices 1..ChunkCount.
C4_IndicesSequential ==
  /\ \A j \in 1..Len(csv) : csv[j].index = j
  /\ Completed => Len(csv) = ChunkCount

C4_Witness == c_exit = "ok" /\ Len(csv) = ChunkCount /\ csv[ChunkCount].index = ChunkCount

\* C5: a record with index k exists only once k * ChunkSize bytes were read;
\* a read_exact that fails part-way through chunk k leaves no record k and no
\* later iteration.
C5_NoPartialRecord ==
  /\ \A j \in 1..Len(csv) : csv[j].index * ChunkSize <= rcvd
  /\ Len(latencies) * ChunkSize <= rcvd
  /\ c_failed_at > 0 =>
       /\ c_pc = "exited"
       /\ Len(csv) = c_failed_at - 1
       /\ Len(latencies) = c_failed_at - 1
       /\ c_reads = c_failed_at
       /\ rcvd < c_failed_at * ChunkSize
       /\ summary = <<>>

C5_Witness == c_failed_at = 2 /\ c_off = 1 /\ Len(csv) = 1

\* C6: the server writes its chunks one at a time and in order: a write_all
\* begins only when every byte of the chunks before it was accepted; with no
\* write failure it makes exactly ChunkCount calls and emits exactly
\* ChunkCount * ChunkSize bytes, and never more.
C6_SenderWrites ==
  /\ s_started <= ChunkCount
  /\ sent <= ChunkCount * ChunkSize
  /\ s_started >= 1 => sent >= (s_started - 1) * ChunkSize
  /\ s_pc = "writing" => (s_started = s_k + 1 /\ sent = s_k * ChunkSize + s_off)
  /\ s_pc = "loop" => (s_started = s_k /\ sent = s_k * ChunkSize)
  /\ (hc_ret = "unit" /\ s_error = "none") =>
       (s_started = ChunkCount /\ sent = ChunkCount * ChunkSize)

C6_Witness ==
  s_pc = "exited" /\ s_error = "none" /\ hc_ret = "unit" /\ sent = ChunkCount * ChunkSize

\* C7: after a failed write_all the server makes no further write, and
\* handle_client's caller sees a result other than that of a completed
\* transfer.
C7_WriteFailureReported ==
  s_error = "TransportError" =>
    /\ s_pc \in {"handled", "exited"}
    /\ s_started = s_k + 1
    /\ hc_ret # "unit"

\* C8: with zero records or a total time of zero the summary derivation fails
\* with a ComputationError and yields no average rate; it never yields an
\* infinite or NaN figure.
C8_ZeroTimeFails ==
  /\ Len(summary) = 1 => summary[1].avg_effective_rate_bps.k = "fin"
  /\ (c_pc \in {"plot", "exited"} /\ Len(csv) = ChunkCount /\ c_error # "SinkError"
        /\ (IsZero(as_secs_f64(total_time)) \/ Len(csv) = 0)) =>
       (summary = <<>> /\ c_error = "ComputationError")

Phase(pc) ==
  CASE pc = "bind" -> 0
    [] pc = "listening" -> 1
    [] pc \in {"setup", "loop", "writing"} -> 2
    [] OTHER -> 3

\* C9: the server accepts at most one connection; its lifecycle only moves
\* forward, Listening -> SessionActive -> Closed, never back to Listening; what
\* waits in the listen queue when it ends is never served.
C9_OneShot ==
  [][/\ accepted' <= 1
     /\ Phase(s_pc') >= Phase(s_pc)
     /\ accepted' > accepted => (Phase(s_pc) = 1 /\ Phase(s_pc') = 2)
     /\ s_pc = "exited" => (s_pc' = "exited" /\ accepted' = accepted)]_vars

C9_Witness ==
  s_pc = "exited" /\ accepted = 1 /\ others >= 1 /\ peer = "rx" /\ hc_ret = "unit"

\* C10: the summary's total_time_seconds is the sum of the duration_seconds of
\* the session's records, and the running total is the sum of the durations
\* collected so far.
C10_TotalTimeIsSum ==
  /\ as_secs_f64(total_time) = FSum(latencies)
  /\ Len(summary) = 1 =>
       summary[1].total_time_seconds = FSum(Column(csv, Len(csv)))

C10_Witness ==
  /\ Len(summary) = 1
  /\ total_time.secs >= 1
  /\ \E j \in 1..Len(csv) : csv[j].duration_seconds # csv[1].duration_seconds


\* C11: once plot_latency_and_data_rate has derived them, each smoothed series
\* has max(0, n - 5 + 1) elements, element i being the mean of the raw samples
\* i .. i+4; for n < 5 both are empty, and the derivation has still taken place.
C11_SmoothedSeries ==
  Len(avg_latency) = 1 =>
    /\ IsSmoothed(latencies, smoothed_latencies)
    /\ IsSmoothed(data_rates, smoothed_data_rates)

C11_Witness ==
  /\ c_exit = "ok"
  /\ Len(latencies) = WINDOW + 2
  /\ Len(smoothed_latencies) = 3
  /\ smoothed_latencies[1] # smoothed_latencies[3]
  /\ smoothed_data_rates[1].k = "fin"


\* C12, as the spec states it: in scenario A the summary has a total time of
\* 10.0 s and an average effective rate of 6,400,000 bps.
C12_ScenarioA_AsStated ==
  Len(summary) = 1 =>
    /\ summary[1].total_time_seconds = F(10)
    /\ summary[1].avg_effective_rate_bps = F(6400000)

\* C12, amended: in scenario A the summary has 100,000,000 bytes, a total time
\* of 10.0 s and an average effective rate of 100,000,000 * 8 / 10 =
\* 80,000,000 bps.
C12_ScenarioA ==
  Len(summary) = 1 =>
    /\ summary[1].total_bytes = 100000000
    /\ summary[1].total_time_seconds = F(10)
    /\ summary[1].avg_effective_rate_bps = F(80000000)

C12_Witness ==
  /\ Len(summary) = 1
  /\ Len(csv) = 100
  /\ \A j \in 1..Len(csv) : csv[j].duration_seconds = Fin(1, 10)
  /\ total_time = Dur(10, 0)


\* C13: every session reports the same tcp_throughput_bps, 64,000 * 8 / 0.2 =
\* 2,560,000, whatever its chunks' durations were; and bdp_bits is fixed by
\* avg_effective_rate_bps alone: it is that rate times 0.2 (infinite or NaN as
\* the rate is).
C13_ThroughputIndependent ==
  Len(summary) = 1 =>
    LET avg == summary[1].avg_effective_rate_bps
        bdp == summary[1].bdp_bits
    IN  /\ summary[1].tcp_throughput_bps = F(2560000)
        /\ IF avg.k = "fin"
           THEN bdp.k = "fin" /\ bdp.n * 5 * avg.d = avg.n * bdp.d
           ELSE bdp.k = avg.k

C13_Witness ==
  /\ Len(summary) = 1
  /\ summary[1].avg_effective_rate_bps.k = "fin"
  /\ \E j \in 1..Len(latencies) : latencies[j] # latencies[1]
  /\ summary[1].tcp_throughput_bps = F(2560000)


\* C14: a session ends: once the server has accepted a connection it gets to
\* its exit after at most ChunkCount write_all calls, and the client, once
\* connected, gets to its exit after at most ChunkCount read_exact calls; a
\* client still reading when the server has ended does not wait for ever.
C14_SessionsTerminate ==
  /\ [](s_started <= ChunkCount /\ c_reads <= ChunkCount)
  /\ (s_pc \in {"setup", "loop", "writing"}) ~> (s_pc = "exited")
  /\ (c_sock = "open") ~> (c_pc = "exited")
  /\ (s_pc = "exited" /\ c_pc = "reading") ~> (c_pc = "exited")

C14_Witness ==
  /\ s_pc = "exited" /\ s_error = "TransportError"
  /\ c_pc = "exited" /\ c_failed_at >= 1
  /\ s_started >= 1 /\ c_reads >= 1


\* C15: each side closes its connection exactly once, on every way out: a
\* process that has ended and had a connection has closed it, once; no
\* process is at a step that uses its connection after closing it.
C15_ReleasedOnce ==
  /\ s_closes <= 1 /\ c_closes <= 1
  /\ s_pc = "exited" => s_closes = accepted
  /\ s_closes = 1 => s_pc \in {"handled", "exited"}
  /\ s_pc \in {"setup", "loop", "writing"} => (accepted = 1 /\ s_closes = 0)
  /\ (peer = "rx" /\ s_closes = 1) => s_sock = "closed"
  /\ c_pc = "exited" =>
       IF c_error = "ConnectionError"
       THEN c_sock = "none" /\ c_closes = 0
       ELSE c_sock = "closed" /\ c_closes = 1
  /\ c_pc \notin {"connect", "exited"} => (c_sock = "open" /\ c_closes = 0)

C15_Witness ==
  /\ s_pc = "exited" /\ s_exit = "ok" /\ s_error = "none" /\ s_closes = 1
  /\ c_pc = "exited" /\ c_exit = "ok" /\ c_closes = 1
  /\ s_sock = "closed" /\ c_sock = "closed"

\* C16: the client never reads more bytes than the server has emitted, so the
\* records never outnumber the whole chunks emitted; what the Receiver has not
\* read of its connection is still in the channel; and when both sides finish
\* without error the client has read exactly the ChunkCount * ChunkSize bytes
\* emitted and none is left unread.
C16_ByteConservation ==
  /\ rcvd <= sent
  /\ Len(csv) * ChunkSize <= sent
  /\ Len(latencies) * ChunkSize <= sent
  /\ peer = "rx" => rcvd + chan = sent
  /\ (c_exit = "ok" /\ hc_ret = "unit" /\ s_error = "none") =>
       /\ sent = ChunkCount * ChunkSize
       /\ rcvd = sent
       /\ chan = 0

C16_Witness ==
  /\ c_exit = "ok" /\ s_exit = "ok" /\ s_error = "none"
  /\ rcvd = ChunkCount * ChunkSize /\ chan = 0
  /\ Len(csv) = ChunkCount

====
